---- MODULE Spec2Model ----
(***************************************************************************)
(* Model of vision-books.py: the MediaTracker daily loop (run_daily), its  *)
(* three collectors, the LLaMA v3 call, the conversion of the answer into  *)
(* a DailyUpdate, the commit of last_update_time and the report POST.      *)
(*                                                                         *)
(* Time is an integer number of ticks; one tick is half of the sleep       *)
(* period (43200 s), so time.sleep(86400) and timedelta(days=1) are both   *)
(* two ticks.  At this resolution the pulls and the report POST take no    *)
(* time; the engine call, the one long request of a cycle, may take a      *)
(* tick.                                                                   *)
(***************************************************************************)
EXTENDS Integers, Sequences, FiniteSets, TLC

VARIABLES
    now,               \* the wall clock read by datetime.now()
    last_update_time,  \* MediaTracker.last_update_time (scalar watermark)
    last_scan,         \* BookshelfScanner.last_scan (seen-set)
    pc,                \* position of run_daily inside the loop body
    new_data,          \* generate_daily_update: new_data (the three deltas)
    request,           \* the data of the POST to the engine, while in flight
    processed_data,    \* generate_daily_update: processed_data (engine records)
    update,            \* run_daily: update (the DailyUpdate), NoUpdate before
    exc,               \* the exception travelling to run_daily's except, "" if none
    snapshot,          \* history: raw snapshot returned by the latest adapter pull
    capture,           \* history: outcome of this cycle's camera capture
    current_books,     \* get_new_books: current_books of this cycle's scan
    scan0,             \* history: last_scan when the cycle started
    wm0,               \* history: last_update_time when the cycle started
    status,            \* history: HTTP status of this cycle's engine call, 0 if none
    sent,              \* history: Reporter invocations of this cycle
    delivered,         \* history: HTTP status the Reporter got, 0 if none / raised
    payload,           \* history: the body handed to the Reporter POST
    echoed,            \* history: the engine answered with an echo of its input
    pending,           \* history: one item of a scalar delta computed since the last commit
    present,           \* history: the pending item was in the snapshot pulled this cycle
    failures,          \* history: cycles that raised before the commit, since the last commit
    seen_ever,         \* history: every title a seen-set held before this cycle
    inputs,            \* which inputs the collaborators draw from
    again,             \* the list a second call of the same extraction returned
    asked,             \* POSTs to the engine in this cycle
    handed,            \* history: items of the scalar deltas of committed cycles
    future             \* history: a pull returned an item dated after the clock

vars == <<now, last_update_time, last_scan, pc, new_data, request, processed_data, update,
          exc, snapshot, capture, current_books, scan0, wm0, status, sent,
          delivered, payload, echoed, pending, present, failures, seen_ever, inputs,
                   again, asked, handed, future>>

(***************************************************************************)
(* Bounds and program constants                                            *)
(***************************************************************************)
MaxTime == 6        \* the clock stops advancing here
MaxLen == 2         \* longest Audible library
MaxContours == 2    \* most contours in a captured frame
MaxTracks == 1      \* longest list of recently played tracks
MaxEcho == 1        \* longest request the engine echoes

Period == 2         \* time.sleep(86400), in ticks
Day == 2            \* timedelta(days=1), in ticks
MinWidth == 50      \* w > 50
MinHeight == 200    \* h > 200
HttpOk == 200       \* response.status_code == 200

Times == 0..(MaxTime + 1)

SeqsUpTo(S, n) == UNION {[1..k -> S] : k \in 0..n}

Range(s) == {s[i] : i \in 1..Len(s)}

(***************************************************************************)
(* External collaborators' data.  AudibleClient and SpotifyClient stand    *)
(* for the real clients (their code is left out of the file): a pull       *)
(* returns any list of raw items, or raises.  A raw item may lack its      *)
(* "title" / "track" key.                                                  *)
(***************************************************************************)
AudibleItems(titles, stamps) ==
    [title : titles, author : {"Herbert"}, date_added : stamps]
    \cup [author : {"Herbert"}, date_added : stamps]

SpotifyItems(stamps) ==
    [track : {"Song"}, artist : {"Band"}, played_at : stamps]
    \cup [artist : {"Band"}, played_at : stamps]

\* The dates a pulled item is given: at the watermark, at the clock, after the
\* clock.  Every other date compares with this and the next watermark as one
\* of these does.
Stamps(clock, watermark) == {watermark, clock, clock + 1}

(***************************************************************************)
(* MediaItem / DailyUpdate and the JSON form of a timestamp                *)
(***************************************************************************)
MediaItem(title, creator, type, timestamp) ==
    [title |-> title, creator |-> creator, type |-> type, timestamp |-> timestamp]

DailyUpdate(date, new_items) == [date |-> date, new_items |-> new_items]

NoUpdate == [date |-> -1, new_items |-> <<>>]

NoItem == MediaItem("", "", "none", 0)

isoformat(t) == "2024-01-0" \o ToString(t) \o "T00:00:00"

IsIso(s) == \E t \in Times : isoformat(t) = s

fromisoformat(s) == CHOOSE t \in Times : isoformat(t) = s

(***************************************************************************)
(* Scalar-watermark delta extraction (get_new_audiobooks, get_new_music)   *)
(***************************************************************************)
\* mutant: the filter lets the watermark's own instant through
IsNewInclusive(observed_at, watermark) == observed_at >= watermark

\* mutant: "added in the last day" instead of "added since the watermark"
IsNewToday(observed_at, watermark) == observed_at > now - Day

\* mutant: an extraction that remembers what it has returned
IsNewOnce(observed_at, watermark) ==
    observed_at > watermark /\ pc \notin {"audiobooks returned", "music returned"}

IsNew(observed_at, watermark) == observed_at > watermark

NewBooks(library, watermark) ==
    SelectSeq(library, LAMBDA book : IsNew(book.date_added, watermark))

AudiobookItem(book) ==
    MediaItem(book.title, book.author, "audiobook", book.date_added)

\* KeyError: an item that passes the filter has no "title"
AudiobooksRaise(library, watermark) ==
    \E i \in 1..Len(NewBooks(library, watermark)) :
        "title" \notin DOMAIN NewBooks(library, watermark)[i]

NewAudiobooks(library, watermark) ==
    LET new == NewBooks(library, watermark)
    IN  [i \in 1..Len(new) |-> AudiobookItem(new[i])]

NewTracks(recent_tracks, watermark) ==
    SelectSeq(recent_tracks, LAMBDA track : IsNew(track.played_at, watermark))

MusicItem(track) ==
    MediaItem(track.track, track.artist, "music", track.played_at)

MusicRaise(recent_tracks, watermark) ==
    \E i \in 1..Len(NewTracks(recent_tracks, watermark)) :
        "track" \notin DOMAIN NewTracks(recent_tracks, watermark)[i]

NewMusic(recent_tracks, watermark) ==
    LET new == NewTracks(recent_tracks, watermark)
    IN  [i \in 1..Len(new) |-> MusicItem(new[i])]

(***************************************************************************)
(* BookshelfScanner                                                        *)
(***************************************************************************)
\* a frame is the list of the bounding boxes of its contours
Boxes == {[w |-> MinWidth + 1, h |-> MinHeight + 1],
          [w |-> MinWidth,     h |-> MinHeight + 1],
          [w |-> MinWidth + 1, h |-> MinHeight]}

IsSpine(box) == box.w > MinWidth /\ box.h > MinHeight

BookTitle(k) == "Book " \o ToString(k)

\* process_image: one title "Book k" per qualifying contour, k counting from 1
process_image(image) ==
    LET spines == SelectSeq(image, IsSpine)
    IN  [k \in 1..Len(spines) |-> BookTitle(k)]

\* list(a_set): the elements in some order
Listings(S) == {s \in [1..Cardinality(S) -> S] : Range(s) = S}

NewTitles(current, previous) == current \ previous

\* mutant: the seen-set accumulates
NextScanUnion(current, previous) == current \cup previous

\* mutant: the scan leaves the seen-set for a later commit
NextScanKept(current, previous) == previous

NextScan(current, previous) == current

PhysicalBookItem(title, timestamp) ==
    MediaItem(title, "Unknown", "physical_book", timestamp)

(***************************************************************************)
(* The Disambiguation Engine's answer and its conversion                   *)
(***************************************************************************)
\* a MediaItem as it travels in a JSON body
Json(item) ==
    [title |-> item.title, creator |-> item.creator, type |-> item.type,
     timestamp |-> isoformat(item.timestamp)]

Flatten(data) == data.audiobooks \o data.music \o data.physical_books

\* the answer of an engine that echoes its input
Echo(data) == [i \in 1..Len(Flatten(data)) |-> Json(Flatten(data)[i])]

Dune == [title |-> "Dune", creator |-> "Herbert", type |-> "audiobook",
         timestamp |-> isoformat(1)]

Emma == [title |-> "Emma", creator |-> "Austen", type |-> "audiobook",
         timestamp |-> isoformat(2)]

\* a record whose timestamp is no ISO date, a record without "creator"
Undated == [Dune EXCEPT !.timestamp = "yesterday"]

Anonymous == [title |-> "Dune", type |-> "audiobook", timestamp |-> isoformat(1)]

\* what an engine answers: lists of well-formed records, lists holding a
\* record that does not convert, or (to a short request) an echo of its input
EngineAnswers ==
    {<<>>, <<Dune>>, <<Dune, Emma>>, <<Emma, Dune>>, <<Undated>>,
     <<Dune, Undated>>, <<Anonymous>>}

ItemKeys == {"title", "creator", "type", "timestamp"}

\* no KeyError and no ValueError while building the MediaItem (lines 209-214)
Converts(item) ==
    /\ ItemKeys \subseteq DOMAIN item
    /\ IsIso(item.timestamp)

\* mutant: title and creator swapped
ConvertItemSwapped(item) ==
    MediaItem(item.creator, item.title, item.type, fromisoformat(item.timestamp))

ConvertItem(item) ==
    MediaItem(item.title, item.creator, item.type, fromisoformat(item.timestamp))

ConvertAll(records) == [i \in 1..Len(records) |-> ConvertItem(records[i])]

(***************************************************************************)
(* Initial state: MediaTracker.__init__ has run, run_daily is entered      *)
(***************************************************************************)
NoData == [audiobooks |-> <<>>, music |-> <<>>, physical_books |-> <<>>]

NoRequest == [short |-> FALSE, data |-> NoData]

Init ==
    /\ now = Day
    /\ last_update_time = now - Day
    /\ last_scan = {}
    /\ pc = "audiobooks"
    /\ new_data = NoData
    /\ request = NoRequest
    /\ processed_data = <<>>
    /\ update = NoUpdate
    /\ exc = ""
    /\ snapshot = <<>>
    /\ capture = "none"
    /\ current_books = {}
    /\ scan0 = {}
    /\ wm0 = last_update_time
    /\ status = 0
    /\ sent = 0
    /\ delivered = 0
    /\ payload = NoUpdate
    /\ echoed = FALSE
    /\ pending = NoItem
    /\ present = FALSE
    /\ failures = 0
    /\ seen_ever = {}
    /\ again = <<>>
    /\ asked = 0
    /\ handed = {}
    /\ future = FALSE
    /\ inputs = "all"

\* the engine call takes no tick or one
Elapse == {d \in 0..1 : now + d <= MaxTime}

\* an exception leaves generate_daily_update / send_update_to_api and reaches
\* run_daily's except clause, which prints it; the loop goes on to time.sleep
Raise(e) == exc' = e /\ pc' = "sleep"

\* the raw item a tracked MediaItem came from
RawAudible(item) ==
    [title |-> item.title, author |-> item.creator, date_added |-> item.timestamp]

RawSpotify(item) ==
    [track |-> item.title, artist |-> item.creator, played_at |-> item.timestamp]

\* With few inputs every pull, capture and answer is one of a handful that
\* still takes each path of the code.
Few == inputs = "few"

\* With dated inputs the pulls return well-formed items only, and the history
\* of the items handed to the engine is kept.
Dated == inputs = "dated"

WellFormed(raw) == "title" \in DOMAIN raw \/ "track" \in DOMAIN raw

\* the MediaItem a well-formed raw item is normalised to
ItemOf(raw) ==
    IF "title" \in DOMAIN raw
    THEN MediaItem(raw.title, raw.author, "audiobook", raw.date_added)
    ELSE MediaItem(raw.track, raw.artist, "music", raw.played_at)

\* the clients list the newest item first (lines 79 and 83)
NewestFirst(list) ==
    \A i \in 1..(Len(list) - 1) :
        ItemOf(list[i]).timestamp > ItemOf(list[i + 1]).timestamp

\* what the Audible library can hold at this pull
Libraries ==
    IF Few
    THEN SeqsUpTo(AudibleItems({"Dune"}, {now}), 1)
    ELSE IF Dated
    THEN {list \in SeqsUpTo(
                 {raw \in AudibleItems({"Dune"}, Stamps(now, last_update_time)) :
                     WellFormed(raw)}
                 \cup {RawAudible(item) : item \in
                          {h \in handed : h.type = "audiobook"}},
                 MaxLen) : NewestFirst(list)}
    ELSE SeqsUpTo(AudibleItems({"Dune"}, Stamps(now, last_update_time))
                  \cup (IF pending.type = "audiobook"
                        THEN {RawAudible(pending)} ELSE {}),
                  MaxLen)

\* what Spotify's recently played list can hold at this pull
RecentTracks ==
    IF Few
    THEN SeqsUpTo(SpotifyItems({now}), 1)
    ELSE IF Dated
    THEN {list \in SeqsUpTo(
                 {raw \in SpotifyItems(Stamps(now, last_update_time)) :
                     WellFormed(raw)}
                 \cup {RawSpotify(item) : item \in
                          {h \in handed : h.type = "music"}},
                 MaxTracks) : NewestFirst(list)}
    ELSE SeqsUpTo(SpotifyItems(Stamps(now, last_update_time))
                  \cup (IF pending.type = "music"
                        THEN {RawSpotify(pending)} ELSE {}),
                  MaxTracks)

\* the frames the camera can return
Frames ==
    IF Dated THEN {<<>>}
    ELSE IF Few THEN SeqsUpTo(Boxes, 1) ELSE SeqsUpTo(Boxes, MaxContours)

\* history: start or keep tracking one item of a delta
Track(delta) ==
    IF Dated THEN {NoItem}
    ELSE IF pending = NoItem THEN {NoItem} \cup Range(delta) ELSE {pending}

\* history, with dated inputs: the lists the pulls of this cycle returned
Pulled(list) == IF Dated THEN snapshot \o list ELSE snapshot

\* history, with dated inputs: an item of the list is dated after the clock
Ahead(list) ==
    IF Dated
    THEN future \/ \E i \in 1..Len(list) : ItemOf(list[i]).timestamp > now
    ELSE future

(***************************************************************************)
(* collect_new_data builds its dict entry by entry, in the order written:  *)
(* audiobooks, music, physical_books; generate_daily_update then calls     *)
(* process_with_llama.                                                     *)
(***************************************************************************)
\* mutant: the shelf is scanned before the music pull
NextPullScanSecond(entry) ==
    CASE entry = "audiobooks" -> "physical_books"
      [] entry = "physical_books" -> "music"
      [] entry = "music" -> "llama"

NextPull(entry) ==
    CASE entry = "audiobooks" -> "music"
      [] entry = "music" -> "physical_books"
      [] entry = "physical_books" -> "llama"

(***************************************************************************)
(* collect_new_data, first entry: get_new_audiobooks                       *)
(***************************************************************************)
get_new_audiobooks ==
    /\ pc = "audiobooks"
    /\ \/ /\ Raise("audible")
          /\ UNCHANGED <<new_data, pending, present, snapshot, future>>
       \/ \E library \in Libraries :
            IF AudiobooksRaise(library, last_update_time)
            THEN /\ Raise("KeyError")
                 /\ UNCHANGED <<new_data, pending, present, snapshot, future>>
            ELSE /\ new_data' = [new_data EXCEPT !.audiobooks =
                                    NewAudiobooks(library, last_update_time)]
                 /\ pending' \in Track(new_data'.audiobooks)
                 /\ present' = /\ pending.type = "audiobook"
                               /\ RawAudible(pending) \in Range(library)
                 /\ pc' = NextPull("audiobooks")
                 /\ snapshot' = Pulled(library)
                 /\ future' = Ahead(library)
                 /\ UNCHANGED exc
    /\ UNCHANGED <<request, now, last_update_time, last_scan, processed_data, update,
                   capture, current_books, scan0, wm0, status, sent,
                   delivered, payload, echoed, failures, seen_ever, inputs,
                   again, asked, handed>>

(***************************************************************************)
(* collect_new_data, second entry: get_new_music                           *)
(***************************************************************************)
get_new_music ==
    /\ pc = "music"
    /\ \/ /\ Raise("spotify")
          /\ UNCHANGED <<new_data, pending, present, snapshot, future>>
       \/ \E recent_tracks \in RecentTracks :
            IF MusicRaise(recent_tracks, last_update_time)
            THEN /\ Raise("KeyError")
                 /\ UNCHANGED <<new_data, pending, present, snapshot, future>>
            ELSE /\ new_data' = [new_data EXCEPT !.music =
                                    NewMusic(recent_tracks, last_update_time)]
                 /\ pending' \in Track(new_data'.music)
                 /\ present' = IF pending.type = "music"
                               THEN RawSpotify(pending) \in Range(recent_tracks)
                               ELSE present
                 /\ pc' = NextPull("music")
                 /\ snapshot' = Pulled(recent_tracks)
                 /\ future' = Ahead(recent_tracks)
                 /\ UNCHANGED exc
    /\ UNCHANGED <<request, now, last_update_time, last_scan, processed_data, update,
                   capture, current_books, scan0, wm0, status, sent,
                   delivered, payload, echoed, failures, seen_ever, inputs,
                   again, asked, handed>>

(***************************************************************************)
(* collect_new_data, third entry: get_new_physical_books, which runs       *)
(* BookshelfScanner.get_new_books.  A failed capture is a None frame, on   *)
(* which cv2.cvtColor raises.                                              *)
(***************************************************************************)
get_new_physical_books ==
    /\ pc = "physical_books"
    /\ \/ /\ Raise("cv2.error")
          /\ capture' = "failed"
          /\ UNCHANGED <<new_data, last_scan, current_books>>
       \/ \E image \in Frames :
            /\ capture' = "ok"
            /\ current_books' = Range(process_image(image))
            /\ last_scan' = NextScan(current_books', last_scan)
            /\ \E new_books \in Listings(NewTitles(current_books', last_scan)) :
                 new_data' = [new_data EXCEPT !.physical_books =
                     [i \in 1..Len(new_books) |->
                         PhysicalBookItem(new_books[i], now)]]
            /\ pc' = NextPull("physical_books")
            /\ UNCHANGED exc
    /\ UNCHANGED <<request, now, last_update_time, processed_data, update, snapshot, scan0,
                   wm0, status, sent, delivered, payload, echoed, pending,
                   present, failures, seen_ever, inputs,
                   again, asked, handed, future>>

(***************************************************************************)
(* process_with_llama: LLaMAv3Client.process_data builds the payload and   *)
(* POSTs it (lines 133-137).  new_data is not read again after the call    *)
(* and is dropped here; the request in flight is kept when it is short     *)
(* enough for the engine to echo.  requests.post is an external call: it   *)
(* answers any status or raises (no connection, a body that json cannot    *)
(* encode), here and in send_update_to_api.                                *)
(***************************************************************************)
process_with_llama ==
    /\ pc = "llama"
    /\ request' = IF Len(Flatten(new_data)) <= MaxEcho
                  THEN [short |-> TRUE, data |-> new_data]
                  ELSE NoRequest
    /\ new_data' = IF Dated THEN new_data ELSE NoData
    /\ asked' = asked + 1
    /\ snapshot' = <<>>
    /\ pc' = "process_data"
    /\ UNCHANGED <<now, last_update_time, last_scan, processed_data, update, exc,
                   capture, current_books, scan0, wm0, status, sent,
                   delivered, payload, echoed, pending, present, failures,
                   seen_ever, inputs, again, handed, future>>

(***************************************************************************)
(* LLaMAv3Client.process_data, lines 137-141: the POST returns or raises;  *)
(* a status other than 200 raises.                                         *)
(***************************************************************************)
Answers ==
    IF Dated THEN {<<>>, <<Undated>>}
    ELSE (IF Few THEN {<<>>, <<Undated>>} ELSE EngineAnswers)
         \cup (IF request.short THEN {Echo(request.data)} ELSE {})

\* mutant: any answer counts as a success
IsSuccessAlways(status_code) == status_code >= HttpOk

\* mutant: whatever the engine answers is taken as its records
IsAnswered(status_code) == status_code \in {HttpOk, 500}

IsSuccess(status_code) == status_code = HttpOk

process_data ==
    /\ pc = "process_data"
    /\ \E d \in Elapse : now' = now + d
    /\ \/ /\ status' = 0                     \* requests.post itself raises
          /\ Raise("requests")
          /\ request' = NoRequest
          /\ UNCHANGED <<processed_data, echoed>>
       \/ \E status_code \in {HttpOk, 500}, answer \in Answers :
            /\ status' = status_code
            /\ IF IsSuccess(status_code)
               THEN /\ processed_data' = answer
                    /\ echoed' = (request.short /\ answer = Echo(request.data))
                    /\ request' = IF echoed' THEN request ELSE NoRequest
                    /\ pc' = "build"
                    /\ UNCHANGED exc
               ELSE /\ Raise("LLaMA v3 server error")
                    /\ request' = NoRequest
                    /\ UNCHANGED <<processed_data, echoed>>
    /\ UNCHANGED <<last_update_time, last_scan, new_data, update, snapshot,
                   capture, current_books, scan0, wm0, sent, delivered, payload,
                   pending, present, failures, seen_ever, inputs,
                   again, asked, handed, future>>

(***************************************************************************)
(* generate_daily_update, lines 208-224: build new_items, the DailyUpdate, *)
(* and set last_update_time.                                               *)
(***************************************************************************)
\* mutant: the commit reads a clock that runs a day and a tick behind
NextWatermarkSkewed(clock, watermark) == clock - (Day + 1)

\* mutant: the commit is left for after the report
NextWatermarkUncommitted(clock, watermark) == watermark

\* mutant: the commit repeats the start's "one day before now"
NextWatermarkDayBack(clock, watermark) == clock - Day

NextWatermark(clock, watermark) == clock

generate_daily_update ==
    /\ pc = "build"
    /\ IF \A i \in 1..Len(processed_data) : Converts(processed_data[i])
       THEN /\ update' = DailyUpdate(now, ConvertAll(processed_data))
            /\ last_update_time' = NextWatermark(now, last_update_time)
            /\ pending' = NoItem
            /\ handed' = IF Dated
                         THEN handed \cup Range(new_data.audiobooks)
                                     \cup Range(new_data.music)
                         ELSE handed
            /\ pc' = "send"
            /\ UNCHANGED exc
       ELSE /\ Raise("convert")
            /\ UNCHANGED <<update, last_update_time, pending, handed>>
    /\ UNCHANGED <<request, now, last_scan, new_data, processed_data, snapshot, capture,
                   current_books, scan0, wm0, status, sent, delivered, payload,
                   echoed, present, failures, seen_ever, inputs,
                   again, asked, future>>

(***************************************************************************)
(* send_update_to_api: one POST; a non-200 answer is printed               *)
(***************************************************************************)
\* mutant: a failed POST is tried again
PostsWithRetry(reply) == IF reply = HttpOk THEN 1 ELSE 2

Posts(reply) == 1

send_update_to_api ==
    /\ pc = "send"
    /\ payload' = update
    /\ \E reply \in {0, HttpOk, 500} :
         /\ sent' = sent + Posts(reply)
         /\ delivered' = reply
         /\ IF reply = 0 THEN Raise("requests") ELSE pc' = "sleep" /\ UNCHANGED exc
    /\ UNCHANGED <<request, now, last_update_time, last_scan, new_data, processed_data,
                   update, snapshot, capture, current_books, scan0, wm0, status,
                   echoed, pending, present, failures, seen_ever, inputs,
                   again, asked, handed, future>>

(***************************************************************************)
(* run_daily: time.sleep(86400), then the next iteration of while True     *)
(***************************************************************************)
\* mutant: half a period
SleepTicksHalf == Period - 1

\* mutant: the next iteration starts without a sleep
SleepTicksNone == Period - Period

SleepTicks == Period

\* the cycle raised inside generate_daily_update
Failed == exc # "" /\ update = NoUpdate

run_daily ==
    /\ pc = "sleep"
    /\ now + SleepTicks <= MaxTime
    /\ now' = now + SleepTicks
    /\ pc' = "audiobooks"
    /\ new_data' = NoData
    /\ processed_data' = <<>>
    /\ update' = NoUpdate
    /\ request' = NoRequest
    /\ exc' = ""
    /\ capture' = "none"
    /\ current_books' = {}
    /\ scan0' = last_scan
    /\ wm0' = last_update_time
    /\ status' = 0
    /\ sent' = 0
    /\ delivered' = 0
    /\ payload' = NoUpdate
    /\ echoed' = FALSE
    /\ present' = FALSE
    /\ failures' = IF Failed THEN failures + 1 ELSE 0
    /\ seen_ever' = seen_ever \cup last_scan
    /\ asked' = 0
    /\ snapshot' = <<>>
    /\ UNCHANGED <<last_update_time, last_scan, pending, inputs, again, handed,
                   future>>

Next ==
    \/ get_new_audiobooks
    \/ get_new_music
    \/ get_new_physical_books
    \/ process_with_llama
    \/ process_data
    \/ generate_daily_update
    \/ send_update_to_api
    \/ run_daily

Spec == Init /\ [][Next]_vars

(***************************************************************************)
(* Properties                                                              *)
(***************************************************************************)
Titles(items) == {items[i].title : i \in 1..Len(items)}

\* C1: when the engine call of a cycle answers a non-success status, then in
\* that cycle the Reporter is never invoked (no report is handed over) and
\* last_update_time still has the value it had when the cycle started.
C1_EngineErrorNoReportNoCommit ==
    (status # 0 /\ status # HttpOk) =>
        /\ sent = 0
        /\ payload = NoUpdate
        /\ update = NoUpdate
        /\ last_update_time = wm0

\* a cycle has ended on an engine error, after a collection that found items
C1_Witness ==
    /\ pc = "sleep"
    /\ status = 500
    /\ exc = "LLaMA v3 server error"
    /\ pending # NoItem
    /\ wm0 > 0

\* C2: an audiobook (a track) that was in the delta of a cycle that failed, and
\* that the library (the played list) pulled by a later cycle still holds, is
\* in that later cycle's delta, however many cycles failed in between.
C2_FailedDeltaIsRetried ==
    /\ (pc = "music" /\ present /\ pending.type = "audiobook")
           => pending \in Range(new_data.audiobooks)
    /\ (pc = "physical_books" /\ present /\ pending.type = "music")
           => pending \in Range(new_data.music)

\* the third cycle finds again an audiobook of a delta of an earlier failed one
C2_Witness ==
    /\ pc = "music"
    /\ present
    /\ failures >= 2
    /\ pending.type = "audiobook"
    /\ pending \in Range(new_data.audiobooks)

\* C3: last_update_time starts one day before the clock of the start, and no
\* step decreases it (the clock never runs backwards).
C3_WatermarkMonotonic ==
    /\ last_update_time = now - Day
    /\ [][last_update_time' >= last_update_time]_vars

\* the watermark has been advanced in two cycles
C3_Witness ==
    /\ wm0 > 0
    /\ last_update_time > wm0

\* C4 (as claimed): an exception of the music pull, in a cycle whose audiobook
\* pull returned two new items, does not end the cycle.
C4_MusicFailureIsolated ==
    (exc = "spotify" /\ Len(new_data.audiobooks) = 2) => pc # "sleep"

\* C5 (as claimed): when the capture of a cycle failed or found no book, the
\* seen-set after get_new_books is the seen-set the cycle started with.
C5_EmptyCaptureKeepsSeenSet ==
    (capture = "failed" \/ (capture = "ok" /\ current_books = {}))
        => last_scan = scan0

\* C6: after get_new_books saw a non-empty snapshot S with prior seen-set P, the
\* books it returned are exactly S \ P, each once, and the seen-set is exactly
\* S; so a title dropped from the seen-set by an earlier scan is returned as new
\* when a snapshot holds it again.
C6_SeenSetReplaced ==
    (pc = "llama" /\ capture = "ok" /\ current_books # {}) =>
        /\ Titles(new_data.physical_books) = current_books \ scan0
        /\ Len(new_data.physical_books) = Cardinality(current_books \ scan0)
        /\ last_scan = current_books
        /\ \A t \in (seen_ever \ scan0) \cap current_books :
               t \in Titles(new_data.physical_books)

\* a title seen before, absent from the previous scan, is returned as new
C6_Witness ==
    /\ pc = "llama"
    /\ capture = "ok"
    /\ \E t \in seen_ever \ scan0 : t \in Titles(new_data.physical_books)

\* C7: in a cycle that built its update, whatever the Reporter endpoint answers
\* (200, another status, or the POST raising), the Reporter has been invoked
\* once with the update, and last_update_time is the commit's clock reading.
C7_DeliveryFailureKeepsCommit ==
    (pc = "sleep" /\ update # NoUpdate) =>
        /\ sent = 1
        /\ payload = update
        /\ last_update_time = update.date
        /\ last_update_time > wm0

\* a cycle has ended with the endpoint answering 500
C7_Witness ==
    /\ pc = "sleep"
    /\ update # NoUpdate
    /\ delivered = 500
    /\ exc = ""

\* the report's items are the engine's records, in length, order, title, creator
SameItems(new_items, records) ==
    /\ Len(new_items) = Len(records)
    /\ \A i \in 1..Len(records) :
           /\ new_items[i].title = records[i].title
           /\ new_items[i].creator = records[i].creator

C8_LoopNeverStops ==
    /\ [](exc # "" => pc = "sleep")
    /\ [][pc = "sleep" => (pc' = "audiobooks" /\ now' - now >= Period)]_vars
    /\ [][pc' = "audiobooks" => pc = "sleep"]_vars
    /\ (pc # "sleep") ~> (pc = "sleep")
    /\ (pc = "sleep" /\ now + Period <= MaxTime) ~> (pc = "audiobooks")

\* a cycle starts after two cycles that raised
C8_Witness ==
    /\ pc = "audiobooks"
    /\ failures >= 2

InitDelta ==
    /\ inputs = "all"
    /\ now = Day
    /\ last_update_time \in Times
    /\ \/ /\ pc = "audiobooks"
          /\ snapshot \in SeqsUpTo(AudibleItems({"Dune", "Emma"}, Times), MaxLen)
       \/ /\ pc = "music"
          /\ snapshot \in SeqsUpTo(SpotifyItems(Times), MaxLen)
    /\ last_scan \in {{}, {BookTitle(1)}}
    /\ new_data = NoData
    /\ request = NoRequest
    /\ processed_data = <<>>
    /\ update = NoUpdate
    /\ exc = ""
    /\ capture = "none"
    /\ current_books = {}
    /\ scan0 = last_scan
    /\ wm0 = last_update_time
    /\ status = 0
    /\ sent = 0
    /\ delivered = 0
    /\ payload = NoUpdate
    /\ echoed = FALSE
    /\ pending = NoItem
    /\ present = FALSE
    /\ failures = 0
    /\ seen_ever = {}
    /\ again = <<>>
    /\ asked = 0
    /\ handed = {}
    /\ future = FALSE

\* get_new_audiobooks with the library the Audible client returned
audiobooks_of_snapshot ==
    /\ pc = "audiobooks"
    /\ IF AudiobooksRaise(snapshot, last_update_time)
       THEN /\ Raise("KeyError")
            /\ UNCHANGED new_data
       ELSE /\ new_data' = [new_data EXCEPT !.audiobooks =
                               NewAudiobooks(snapshot, last_update_time)]
            /\ pc' = "audiobooks returned"
            /\ UNCHANGED exc
    /\ UNCHANGED <<request, now, last_update_time, last_scan, processed_data,
                   update, snapshot, capture, current_books, scan0, wm0, status,
                   sent, delivered, payload, echoed, pending, present, failures,
                   seen_ever, inputs,
                   again, asked, handed, future>>

\* get_new_music with the list the Spotify client returned
music_of_snapshot ==
    /\ pc = "music"
    /\ IF MusicRaise(snapshot, last_update_time)
       THEN /\ Raise("KeyError")
            /\ UNCHANGED new_data
       ELSE /\ new_data' = [new_data EXCEPT !.music =
                               NewMusic(snapshot, last_update_time)]
            /\ pc' = "music returned"
            /\ UNCHANGED exc
    /\ UNCHANGED <<request, now, last_update_time, last_scan, processed_data,
                   update, snapshot, capture, current_books, scan0, wm0, status,
                   sent, delivered, payload, echoed, pending, present, failures,
                   seen_ever, inputs,
                   again, asked, handed, future>>

\* get_new_audiobooks called once more, the library and the watermark the same
audiobooks_again ==
    /\ pc = "audiobooks returned"
    /\ IF AudiobooksRaise(snapshot, last_update_time)
       THEN /\ Raise("KeyError")
            /\ UNCHANGED again
       ELSE /\ again' = NewAudiobooks(snapshot, last_update_time)
            /\ pc' = "audiobooks returned twice"
            /\ UNCHANGED exc
    /\ UNCHANGED <<request, now, last_update_time, last_scan, new_data,
                   processed_data, update, snapshot, capture, current_books,
                   scan0, wm0, status, sent, delivered, payload, echoed, pending,
                   present, failures, seen_ever, inputs, asked, handed, future>>

\* get_new_music called once more, the list and the watermark the same
music_again ==
    /\ pc = "music returned"
    /\ IF MusicRaise(snapshot, last_update_time)
       THEN /\ Raise("KeyError")
            /\ UNCHANGED again
       ELSE /\ again' = NewMusic(snapshot, last_update_time)
            /\ pc' = "music returned twice"
            /\ UNCHANGED exc
    /\ UNCHANGED <<request, now, last_update_time, last_scan, new_data,
                   processed_data, update, snapshot, capture, current_books,
                   scan0, wm0, status, sent, delivered, payload, echoed, pending,
                   present, failures, seen_ever, inputs, asked, handed, future>>

NextDelta ==
    \/ audiobooks_of_snapshot
    \/ music_of_snapshot
    \/ audiobooks_again
    \/ music_again

SpecDelta == InitDelta /\ [][NextDelta]_vars

\* the index of the k-th smallest element of a set of indices
Nth(S, k) == CHOOSE i \in S : Cardinality({j \in S : j < i}) = k - 1

\* C10: the delta get_new_audiobooks (get_new_music) returns has one item for
\* each snapshot item dated strictly after the watermark, in snapshot order,
\* with that item's title, creator and date; items dated at or before the
\* watermark are left out, and items that share a title are all kept.
C10_DeltaIsStrictSubsequence ==
    /\ pc = "audiobooks returned" =>
         LET kept == {i \in 1..Len(snapshot) :
                         snapshot[i].date_added > last_update_time}
             delta == new_data.audiobooks
         IN  /\ Len(delta) = Cardinality(kept)
             /\ \A k \in 1..Len(delta) :
                  delta[k] = [title |-> snapshot[Nth(kept, k)].title,
                              creator |-> snapshot[Nth(kept, k)].author,
                              type |-> "audiobook",
                              timestamp |-> snapshot[Nth(kept, k)].date_added]
    /\ pc = "music returned" =>
         LET kept == {i \in 1..Len(snapshot) :
                         snapshot[i].played_at > last_update_time}
             delta == new_data.music
         IN  /\ Len(delta) = Cardinality(kept)
             /\ \A k \in 1..Len(delta) :
                  delta[k] = [title |-> snapshot[Nth(kept, k)].track,
                              creator |-> snapshot[Nth(kept, k)].artist,
                              type |-> "music",
                              timestamp |-> snapshot[Nth(kept, k)].played_at]

\* watermark 2 (yesterday); an audiobook added at 3 (today) and one added at 0
\* (two days ago): the delta is the first alone
C10_Witness ==
    /\ pc = "audiobooks returned"
    /\ last_update_time = 2
    /\ Len(snapshot) = 2
    /\ snapshot[1].date_added = 3
    /\ snapshot[2].date_added = 0
    /\ Len(new_data.audiobooks) = 1
    /\ new_data.audiobooks[1].timestamp = 3

C13_CommitOnlyAfterFullPipeline ==
    /\ last_update_time # wm0 =>
          /\ pc \in {"send", "sleep"}
          /\ capture = "ok"
          /\ asked = 1
          /\ status = HttpOk
          /\ \A i \in 1..Len(processed_data) : Converts(processed_data[i])
          /\ update.new_items = ConvertAll(processed_data)
          /\ exc # "" => (pc = "sleep" /\ sent = 1)
    /\ (pc = "sleep" /\ Failed) => last_update_time = wm0

\* the watermark has just been advanced by a cycle that built two report items
C13_Witness ==
    /\ pc = "send"
    /\ last_update_time > wm0
    /\ status = HttpOk
    /\ Len(update.new_items) = 2

\* C14: when a cycle raised after its scan returned (engine or conversion
\* failure), the seen-set is that cycle's snapshot; and a scan that finds the
\* shelf as the seen-set of the cycle's start has it returns no book, so the
\* books of the failed cycle are not in the next cycle's request.
C14_SeenSetCommittedInCollection ==
    /\ (pc = "sleep" /\ capture = "ok" /\ Failed) => last_scan = current_books
    /\ (pc = "llama" /\ capture = "ok" /\ current_books = scan0) =>
           new_data.physical_books = <<>>

\* the second cycle scans the shelf the first cycle scanned before it failed
C14_Witness ==
    /\ pc = "llama"
    /\ failures = 1
    /\ now < Day + 2 * Period
    /\ scan0 # {}
    /\ current_books = scan0
    /\ new_data.physical_books = <<>>

\* C15 (as claimed): in a cycle, last_update_time is advanced only after the
\* Reporter has been invoked with the cycle's update.
C15_CommitAfterReport ==
    last_update_time # wm0 => sent >= 1

\* C15 (amended): the stages of a successful cycle are collection, engine call,
\* conversion and commit, report: when the Reporter is about to be invoked the
\* three pulls and the engine call are over and last_update_time is already
\* the date of the update, and the report does not change it.
C15_CommitBeforeReport ==
    /\ pc = "send" =>
          /\ capture = "ok"
          /\ asked = 1
          /\ status = HttpOk
          /\ sent = 0
          /\ update # NoUpdate
          /\ last_update_time = update.date
    /\ sent >= 1 =>
          /\ pc = "sleep"
          /\ payload = update
          /\ last_update_time = update.date

\* a cycle has advanced the watermark and then delivered its report
C15_Witness ==
    /\ pc = "sleep"
    /\ sent = 1
    /\ delivered = HttpOk
    /\ exc = ""
    /\ last_update_time > wm0

\* C16: run_daily is the one thread of control: a cycle starts only from the
\* sleep, after the cycle before it has ended (it raised, or its report was
\* posted) and a full period has passed, and between the end of a cycle and
\* the start of the next nothing writes last_update_time or last_scan.
C16_NoOverlappingCycles ==
    [][/\ pc' = "audiobooks" =>
            /\ pc = "sleep"
            /\ exc # "" \/ sent = 1
            /\ now' >= now + Period
       /\ pc = "sleep" =>
            /\ last_update_time' = last_update_time
            /\ last_scan' = last_scan]_vars

\* a cycle starts after a cycle that committed and reported
C16_Witness ==
    /\ pc = "audiobooks"
    /\ now >= Day + Period
    /\ failures = 0
    /\ last_update_time = wm0
    /\ last_update_time >= Day

\* C19: the shelf is scanned after the audiobook and the music pull have
\* returned; a cycle that the audiobook or the music pull ended (the client
\* raised, or an item had no title) has scanned nothing, has its seen-set and
\* last_update_time as at its start, and has called neither engine nor Reporter.
C19_PullsInOrder ==
    /\ pc \in {"audiobooks", "music", "physical_books"} =>
          /\ capture = "none"
          /\ last_scan = scan0
          /\ asked = 0
    /\ exc \in {"audible", "spotify", "KeyError"} =>
          /\ capture = "none"
          /\ last_scan = scan0
          /\ last_update_time = wm0
          /\ asked = 0
          /\ sent = 0

\* the music pull raised in a cycle that started with a non-empty seen-set
C19_Witness ==
    /\ pc = "sleep"
    /\ exc = "spotify"
    /\ scan0 # {}
    /\ last_scan = scan0
    /\ Len(new_data.audiobooks) = 1

\* C11 (as claimed): a raw item that fails normalisation (no "title" / "track"
\* key) is dropped alone; its KeyError never ends the cycle.
C11_MalformedItemDropped ==
    ~(pc = "sleep" /\ exc = "KeyError")

(***************************************************************************)
(* The loop under weak fairness: a step that can be taken is taken (every  *)
(* external call returns or raises, the sleep ends).  The collaborators    *)
(* draw from few inputs: whether a call returns or raises is all that      *)
(* decides how the loop goes on.                                           *)
(***************************************************************************)
InitLive ==
    /\ inputs = "few"
    /\ now = Day
    /\ last_update_time = now - Day
    /\ last_scan = {}
    /\ pc = "audiobooks"
    /\ new_data = NoData
    /\ request = NoRequest
    /\ processed_data = <<>>
    /\ update = NoUpdate
    /\ exc = ""
    /\ snapshot = <<>>
    /\ capture = "none"
    /\ current_books = {}
    /\ scan0 = {}
    /\ wm0 = last_update_time
    /\ status = 0
    /\ sent = 0
    /\ delivered = 0
    /\ payload = NoUpdate
    /\ echoed = FALSE
    /\ pending = NoItem
    /\ present = FALSE
    /\ failures = 0
    /\ seen_ever = {}
    /\ again = <<>>
    /\ asked = 0
    /\ handed = {}
    /\ future = FALSE

(***************************************************************************)
(* The loop on dated inputs, with the history of what was handed over.     *)
(***************************************************************************)
InitDated ==
    /\ inputs = "dated"
    /\ now = Day
    /\ last_update_time = now - Day
    /\ last_scan = {}
    /\ pc = "audiobooks"
    /\ new_data = NoData
    /\ request = NoRequest
    /\ processed_data = <<>>
    /\ update = NoUpdate
    /\ exc = ""
    /\ snapshot = <<>>
    /\ capture = "none"
    /\ current_books = {}
    /\ scan0 = {}
    /\ wm0 = last_update_time
    /\ status = 0
    /\ sent = 0
    /\ delivered = 0
    /\ payload = NoUpdate
    /\ echoed = FALSE
    /\ pending = NoItem
    /\ present = FALSE
    /\ failures = 0
    /\ seen_ever = {}
    /\ again = <<>>
    /\ asked = 0
    /\ handed = {}
    /\ future = FALSE

SpecDated == InitDated /\ [][Next]_vars

\* the watermark the process starts with
FirstWatermark == Day - Day

\* C17 (as claimed): every audiobook or track that a pull returns dated at or
\* before the watermark in force (and after the watermark of the start) was in
\* the delta of an earlier cycle that committed.
C17_NoItemSkipped ==
    pc \in {"music", "physical_books", "llama"} =>
        \A i \in 1..Len(snapshot) :
            LET item == ItemOf(snapshot[i])
            IN  (item.timestamp <= last_update_time
                 /\ item.timestamp > FirstWatermark) => item \in handed

\* C18: as long as no pull has returned an item dated after the clock, no item
\* of the audiobook or music delta of a cycle was in the audiobook or music
\* delta of an earlier cycle that committed.
C18_NoItemHandedTwice ==
    (pc \in {"music", "physical_books", "llama", "process_data", "build"}
     /\ ~future) =>
        \A item \in Range(new_data.audiobooks) \cup Range(new_data.music) :
            item \notin handed

\* a library that still holds an audiobook of a committed delta, next to a new
\* one: the delta is the new one alone
C18_Witness ==
    /\ pc = "llama"
    /\ ~future
    /\ \E i \in 1..Len(snapshot) : ItemOf(snapshot[i]) \in handed
    /\ Len(new_data.audiobooks) = 1
    /\ new_data.audiobooks[1] \notin handed

LiveSpec == InitLive /\ [][Next]_vars /\ WF_vars(Next)
====
